---------------------------- MODULE Spec2Model ----------------------------
(***************************************************************************)
(* A model of the price-advisor serverless handlers of bechobazaar/geminiai *)
(*                                                                         *)
(*   variant "web"     src/netlify/functions/price-advisor-web.js:126-215  *)
(*   variant "openaiA" src/netlify/functions/price-advisor-openai.js:126   *)
(*   variant "openaiB" src/netlify/functions/price-advisor-web.js:336-379  *)
(*                     (the same handler is src/unnamed/part_000:114-156)  *)
(*   variant "tool"    src/netlify/functions/price-advisor-openai.js:317   *)
(*   variant "webB"    src/netlify/functions/price-advisor-openai.js:385   *)
(*                                                                         *)
(* One request is followed from its arrival to its response.  The two      *)
(* upstream collaborators (search provider, generation provider) answer    *)
(* nondeterministically.  Texts are sequences of lexical tokens, numbers   *)
(* of a provider reply are rationals q / Scale, emitted prices are         *)
(* integers.                                                               *)
(***************************************************************************)
EXTENDS Integers, Sequences, FiniteSets, TLC

VARIABLES
  variant,   \* which handler serves the request
  req,       \* the incoming event: method, headers, body, environment keys
  pc,        \* position of the handler
  search,    \* per search query: "idle", "inflight", "resolved" (results),
             \* "degraded" (non-success status), "rejected" (fetch threw)
  found,     \* per search query: the results tavilySearch returned
  web,       \* the merged evidence (web.results)
  gen,       \* number of generation calls in flight
  calls,     \* every upstream request issued so far, in order
  replies,   \* every generation reply received so far, in order
  ans,       \* what the generation step handed back to the handler
  toolUnsupported,  \* the tool-using handler's flag of the same name
  resp,      \* the response returned to the caller
  parked     \* a second invocation of the process, waiting at an await

vars == <<variant, req, pc, search, found, web, gen, calls, replies, ans,
          toolUnsupported, resp, parked>>

---------------------------------------------------------------------------
(* Bounds of the model *)

\* provider numbers are multiples of 1/Scale
Scale == 3
\* largest price (in whole rupees) a provider reply names
MaxPrice == 7
\* longest reply text, in tokens, of the parsing specification
MaxTextLen == 3
\* longest provider error message, in words
MaxMsgLen == 1
\* most results one search reply carries
MaxResults == 2
\* longest list of sources or of evidence the guardrails and the merge are
\* given in their own specifications
MaxListLen == 7

---------------------------------------------------------------------------
(* JavaScript values *)

\* a header, field or key that is not there
Absent == "<absent>"

Null == [k |-> "null", q |-> 0]
NaNv == [k |-> "nan", q |-> 0]
Num(q) == [k |-> "num", q |-> q]

\* JS truthiness of a value that toN produced (null or an integer)
Truthy(v) == v.k = "num" /\ v.q # 0

\* Math.round of q / Scale: floor(x + 0.5)
MathRound(q) == (2 * q + Scale) \div (2 * Scale)

\* String.prototype.toLowerCase on the strings the model uses
toLowerCase(s) ==
  CASE s = "PRO" -> "pro"
    [] s = "Pro" -> "pro"
    [] s = "VIP" -> "vip"
    [] s = "Free" -> "free"
    [] s = "GOLD" -> "gold"
    [] s = "HIGH" -> "high"
    [] s = "Medium" -> "medium"
    [] s = "Quota" -> "quota"
    [] s = "Billing" -> "billing"
    [] s = "Tool" -> "tool"
    [] s = "Unsupported" -> "unsupported"
    [] OTHER -> s

\* String.prototype.trim on the category strings the model uses
Trim(s) == IF s = "  " THEN "" ELSE s

RECURSIVE SeqFilter(_, _)
SeqFilter(s, keep) ==
  IF s = <<>> THEN <<>>
  ELSE IF Head(s) \in keep THEN <<Head(s)>> \o SeqFilter(Tail(s), keep)
  ELSE SeqFilter(Tail(s), keep)

\* Array.prototype.slice(0, n)
Slice0(s, n) == IF Len(s) <= n THEN s ELSE SubSeq(s, 1, n)

SeqsUpTo(S, n) == UNION {[1..m -> S] : m \in 0..n}

---------------------------------------------------------------------------
(* The object a provider reply carries *)

Item(u, t) == [url |-> u, title |-> t]

NoSources == [present |-> FALSE, items |-> <<>>]
SomeSources(s) == [present |-> TRUE, items |-> s]

MkObj(l, h, s, c, w, src) ==
  [market_price_low |-> l, market_price_high |-> h, suggested_price |-> s,
   confidence |-> c, why |-> w, sources |-> src]

\* {} : every field undefined
EmptyObj == MkObj(Null, Null, Null, Absent, Absent, NoSources)

\* the record the final response carries; kind says what was parsed
MkResult(kind, o) == [kind |-> kind, rec |-> o]
NoResult == MkResult("none", EmptyObj)

---------------------------------------------------------------------------
(* Reply texts as token sequences *)
(*   FJ   ```json          F    ```            W    a word of prose        *)
(*   OBJ  the reply object written as JSON, plain quotes                   *)
(*   SOBJ the reply object written with smart quotes around keys/strings   *)
(*   QOBJ the reply object, valid JSON, smart quotes inside a string value *)
(*   XOBJ a brace-delimited text that is not valid JSON                    *)
(*   ARR  [1,2]   NUM  123   NULL null   TRUE true   STR "abc"             *)
(*   LB   {       RB   }     NL   white space                              *)

Fences == {"FJ", "F"}
OpensBrace == {"LB", "OBJ", "SOBJ", "QOBJ", "XOBJ"}
ClosesBrace == {"RB", "OBJ", "SOBJ", "QOBJ", "XOBJ"}
Tokens == {"FJ", "F", "W", "OBJ", "SOBJ", "QOBJ", "ARR", "NUM", "NULL",
           "TRUE", "STR", "LB", "RB", "NL"}

RECURSIVE TrimStart(_)
TrimStart(t) ==
  IF t # <<>> /\ Head(t) = "NL" THEN TrimStart(Tail(t)) ELSE t

RECURSIVE TrimEnd(_)
TrimEnd(t) ==
  IF t # <<>> /\ t[Len(t)] = "NL" THEN TrimEnd(SubSeq(t, 1, Len(t) - 1)) ELSE t

\* String.prototype.trim on a text
TrimText(t) == TrimEnd(TrimStart(t))

\* indexOf / lastIndexOf of a token class, 0 when there is none
FirstIdx(t, S) ==
  IF \E i \in 1..Len(t) : t[i] \in S
  THEN CHOOSE i \in 1..Len(t) : t[i] \in S /\ \A j \in 1..(i - 1) : t[j] \notin S
  ELSE 0

LastIdx(t, S) ==
  IF \E i \in 1..Len(t) : t[i] \in S
  THEN CHOOSE i \in 1..Len(t) : t[i] \in S /\ \A j \in (i + 1)..Len(t) : t[j] \notin S
  ELSE 0

\* every token but white space
Ink == (Tokens \cup {"XOBJ"}) \ {"NL"}

\* JSON.parse: the kind of value the text denotes, "error" when it throws
JsonKind(t) ==
  LET s == SeqFilter(t, Ink) IN
  IF Len(s) = 1 THEN
    CASE s[1] \in {"OBJ", "QOBJ"} -> "object"
      [] s[1] = "ARR" -> "array"
      [] s[1] = "NUM" -> "number"
      [] s[1] = "NULL" -> "null"
      [] s[1] = "TRUE" -> "boolean"
      [] s[1] = "STR" -> "string"
      [] OTHER -> "error"
  ELSE IF s = <<"LB", "RB">> THEN "object"
  ELSE "error"

\* JSON.parse: the object the text denotes (o is the object OBJ stands for)
JsonValue(t, o) ==
  LET s == SeqFilter(t, Ink) IN
  IF Len(s) = 1 /\ s[1] \in {"OBJ", "QOBJ"} THEN o ELSE EmptyObj

---------------------------------------------------------------------------
(* Text repair and extraction *)

\* coerceJsonString: trim, drop the fences, cut to first "{" .. last "}",
\* then turn smart quotes into plain quotes
SmartQuotes(tok) ==
  CASE tok = "SOBJ" -> "OBJ"
    [] tok = "QOBJ" -> "XOBJ"
    [] OTHER -> tok

coerceJsonString(s) ==
  LET t1 == SeqFilter(TrimText(s), (Tokens \cup {"XOBJ"}) \ Fences)
      firstBrace == FirstIdx(t1, OpensBrace)
      lastBrace == LastIdx(t1, ClosesBrace)
      \* a token that opens and closes a brace holds both characters, so
      \* lastBrace > firstBrace (in characters) is lastBrace >= firstBrace
      \* (in tokens)
      t2 == IF firstBrace # 0 /\ lastBrace # 0 /\ lastBrace >= firstBrace
            THEN SubSeq(t1, firstBrace, lastBrace)
            ELSE t1
  IN [i \in 1..Len(t2) |-> SmartQuotes(t2[i])]

\* the brace cut of the second price-advisor-web handler (no fence removal,
\* no smart quotes)
BraceCut(s) ==
  LET t1 == TrimText(s)
      firstBrace == FirstIdx(t1, OpensBrace)
      lastBrace == LastIdx(t1, ClosesBrace)
  IN IF firstBrace # 0 /\ lastBrace >= firstBrace
     THEN SubSeq(t1, firstBrace, lastBrace)
     ELSE t1

\* txt.match(/```json([\s\S]*?)```/i): the captured group, or the text itself
FencedBody(txt) ==
  LET i == FirstIdx(txt, {"FJ"})
      rest == IF i = 0 THEN <<>> ELSE SubSeq(txt, i + 1, Len(txt))
      j == FirstIdx(rest, Fences)
  IN IF i # 0 /\ j # 0 THEN SubSeq(rest, 1, j - 1) ELSE txt

\* Array.prototype.join("\n") of the texts of content parts
RECURSIVE JoinNL(_)
JoinNL(parts) ==
  IF parts = <<>> THEN <<>>
  ELSE IF Len(parts) = 1 THEN parts[1]
  ELSE parts[1] \o <<"NL">> \o JoinNL(Tail(parts))

\* the content parts of all messages, in order
RECURSIVE Flatten(_)
Flatten(out) == IF out = <<>> THEN <<>> ELSE Head(out) \o Flatten(Tail(out))

\* A reply envelope: output is a sequence of messages, a message is the
\* sequence of the texts of its content parts; output_text and choice are
\* texts, empty when the field is absent
MkEnv(out, ot, ch) == [output |-> out, output_text |-> ot, choice |-> ch]

\* extractTextFromResponses of the price-advisor-openai handlers
extractTextFromResponses(json) ==
  IF json.output # <<>> /\ json.output[1] # <<>>
  THEN TrimText(JoinNL(json.output[1]))
  ELSE json.choice

\* extractText of the tool-using handler
extractText(respJson) ==
  LET t1 == IF respJson.output # <<>> /\ respJson.output[1] # <<>>
            THEN respJson.output[1][1] ELSE <<>>
      chunks == JoinNL(Flatten(respJson.output))
  IN IF t1 # <<>> THEN t1
     ELSE IF respJson.output_text # <<>> THEN respJson.output_text
     ELSE chunks

---------------------------------------------------------------------------
(* Provider error messages: sequences of words *)

QuotaWords == {"quota", "exceeded", "billing"}
ToolWords == {"web_search", "web-search", "websearch", "tool", "unsupported",
              "not enabled"}

\* /quota|exceeded|billing/i.test(emsg)
QuotaPattern(emsg) == \E i \in 1..Len(emsg) : toLowerCase(emsg[i]) \in QuotaWords

\* /web[_-]?search|tool|unsupported|not enabled|Unknown tool/i.test(emsg)
ToolPattern(emsg) == \E i \in 1..Len(emsg) : toLowerCase(emsg[i]) \in ToolWords

---------------------------------------------------------------------------
(* Model selection *)

Falsy(s) == s = Absent \/ s = ""

DEFAULT_MODEL_FREE == "gpt-4o-mini"
DEFAULT_MODEL_PRO == "gpt-5-mini"
DEFAULT_MODEL_VIP == "gpt-5"
MODEL == "gpt-4o-mini"

\* the chooser with the case folding left out
pickModelCaseSensitive(planHdr, explicitHeaderModel) ==
  IF ~Falsy(explicitHeaderModel) THEN explicitHeaderModel
  ELSE LET plan == IF Falsy(planHdr) THEN "" ELSE planHdr IN
       IF plan = "vip" THEN DEFAULT_MODEL_VIP
       ELSE IF plan = "pro" THEN DEFAULT_MODEL_PRO
       ELSE DEFAULT_MODEL_FREE

pickModelFromPlan(planHdr, explicitHeaderModel) ==
  IF ~Falsy(explicitHeaderModel) THEN explicitHeaderModel
  ELSE LET plan == toLowerCase(IF Falsy(planHdr) THEN "" ELSE planHdr) IN
       IF plan = "vip" THEN DEFAULT_MODEL_VIP
       ELSE IF plan = "pro" THEN DEFAULT_MODEL_PRO
       ELSE DEFAULT_MODEL_FREE

\* price-advisor-web: plan read in the handler, model chosen in askOpenAI
WebPlan(planHdr) == toLowerCase(IF Falsy(planHdr) THEN "free" ELSE planHdr)
useModel(plan) == IF plan = "pro" THEN "gpt-5-mini" ELSE "gpt-4o-mini"

---------------------------------------------------------------------------
(* Guardrails of price-advisor-web *)

MaxSources == 6

toN(v) == IF v.k # "num" THEN Null ELSE Num(MathRound(v.q))

\* x || null
OrNull(v) == IF Truthy(v) THEN v ELSE Null

\* the band after the swap repair: <<low, high>>
RepairBand(low, high) ==
  IF Truthy(low) /\ Truthy(high) /\ low.q > high.q
  THEN <<high, low>> ELSE <<low, high>>

\* the suggested price after the default and the clamp
RepairSug(sug, low, high) ==
  LET both == Truthy(low) /\ Truthy(high)
      s1 == IF ~Truthy(sug) /\ both
            THEN Num((low.q + high.q + 1) \div 2) ELSE sug
      s2 == IF Truthy(s1) /\ both /\ s1.q < low.q THEN low ELSE s1
      s3 == IF Truthy(s2) /\ both /\ s2.q > high.q THEN high ELSE s2
  IN s3

\* (r.confidence || "medium").toLowerCase(); a truthy non-string throws
ConfidenceThrows(c) == c = "<number>"
RepairConfidence(c) == IF Falsy(c) THEN "medium" ELSE toLowerCase(c)

\* a default text that counts the responses the process has given
RepairWhyByTurn(w) ==
  IF Falsy(w) THEN (IF parked.pc = "done" THEN "default, again" ELSE "default")
  ELSE w

\* r.why || "Estimated from ..."
RepairWhy(w) == IF Falsy(w) THEN "default" ELSE w

\* the sources with the cut left out
RepairSourcesUncut(src, webResults) ==
  LET from == IF src.present THEN src.items ELSE webResults
  IN [i \in 1..Len(from) |->
        Item(from[i].url, IF from[i].title = "" THEN "source" ELSE from[i].title)]

\* (r.sources || web.results || []).slice(0,6).map(...)
RepairSources(src, webResults) ==
  LET from == IF src.present THEN src.items ELSE webResults
      cut == Slice0(from, MaxSources)
  IN [i \in 1..Len(cut) |->
        Item(cut[i].url, IF cut[i].title = "" THEN "source" ELSE cut[i].title)]

\* the object under "result" of the final response
Guardrails(r, webResults) ==
  LET band == RepairBand(toN(r.market_price_low), toN(r.market_price_high))
      sug == RepairSug(toN(r.suggested_price), band[1], band[2])
  IN MkObj(OrNull(band[1]), OrNull(band[2]), OrNull(sug),
           RepairConfidence(r.confidence), RepairWhy(r.why),
           SomeSources(RepairSources(r.sources, webResults)))

\* askOpenAI lines 110-123: what the reply text is parsed into
\* (o is the object the tokens OBJ, SOBJ, QOBJ stand for)
ParseReply(content, o) ==
  LET txt == IF content = <<>> THEN <<"LB", "RB">> ELSE content
      raw == FencedBody(txt)
      kind == JsonKind(raw)
  IN IF kind = "error"
     THEN [kind |-> "error",
           result |-> [EmptyObj EXCEPT !.why = "rawtext"]]
     ELSE [kind |-> kind, result |-> JsonValue(raw, o)]

---------------------------------------------------------------------------
(* Requests, upstream calls, provider outcomes, responses *)

Variants == {"web", "openaiA", "openaiB", "tool", "webB"}
Queries == {"used", "launch"}

MkReq(m, b, c, p, hm, hk, ek, tk) ==
  [method |-> m, body |-> b, category |-> c, plan |-> p, headerModel |-> hm,
   headerKey |-> hk, envKey |-> ek, tavilyKey |-> tk]

BaseReq == MkReq("POST", "listing", "mobiles", Absent, Absent, FALSE, TRUE, TRUE)

Methods == {"OPTIONS", "GET", "POST"}
\* event.body: not JSON; {}; {"input": null}; {"input": {...}}
Bodies == {"invalid", "empty", "nullinput", "listing"}
Categories == {Absent, "", "  ", "mobiles"}
Plans == {Absent, "", "free", "pro", "PRO", "vip", "gold"}
HeaderModels == {Absent, "gpt-x"}

\* the fields of a request that vary together; a request of the model
\* differs from the base request in one group
FieldGroups == {{"method"}, {"body"}, {"envKey", "headerKey"}, {"category"},
                {"tavilyKey"}, {"plan", "headerModel"}}

Canonical(v, r) ==
  /\ \E G \in FieldGroups : \A g \in (DOMAIN r) \ G : r[g] = BaseReq[g]
  /\ v \in {"web", "webB"} => r.headerModel = Absent
  /\ v = "web" => ~r.headerKey
  /\ v \in {"openaiA", "openaiB", "tool"} => r.tavilyKey
  /\ v = "tool" => r.plan = Absent /\ r.headerModel = Absent

Requests(v) ==
  {r \in [method : Methods, body : Bodies, category : Categories, plan : Plans,
          headerModel : HeaderModels, headerKey : BOOLEAN, envKey : BOOLEAN,
          tavilyKey : BOOLEAN] : Canonical(v, r)}

\* an upstream request
Call(to, q, model, tools) == [to |-> to, q |-> q, model |-> model, tools |-> tools]

EmptyEnv == MkEnv(<<>>, <<>>, <<>>)

\* what the generation step hands back (fields a variant does not use keep
\* their defaults)
MkAns(okf, status, emsg, env, o, model, kind, result) ==
  [ok |-> okf, status |-> status, emsg |-> emsg, env |-> env, obj |-> o,
   model |-> model, kind |-> kind, result |-> result]
NoAns == MkAns(FALSE, 0, <<>>, EmptyEnv, EmptyObj, "", "none", EmptyObj)

\* a response: kind is "none" (not yet), "empty" (preflight), "success" or
\* "failure"; ok is the ok:true of a success body
MkResp(status, kind, okf, err, emsg, model, result, uws) ==
  [status |-> status, kind |-> kind, ok |-> okf, error |-> err, emsg |-> emsg,
   model |-> model, result |-> result, used_web_search |-> uws]
NoResp == MkResp(0, "none", FALSE, "", <<>>, "", NoResult, FALSE)
Preflight(status) == MkResp(status, "empty", FALSE, "", <<>>, "", NoResult, FALSE)
\* a handler without its try/catch: an exception escapes, nothing is returned
BadUncaught(status, err, emsg) ==
  IF err = "exception" THEN NoResp
  ELSE MkResp(status, "failure", FALSE, err, emsg, "", NoResult, FALSE)
Bad(status, err, emsg) == MkResp(status, "failure", FALSE, err, emsg, "", NoResult, FALSE)

\* error messages of the generation provider
Words == {"invalid", "quota", "Billing", "exceeded", "web_search", "Tool",
          "not enabled"}
Messages == SeqsUpTo(Words, MaxMsgLen)
ErrStatuses == {400, 429, 500}

\* reply objects and reply texts of the pipeline specification
GoodObj == MkObj(Num(Scale), Num(2 * Scale), Num(Scale), "high", "model", NoSources)
InvertedObj == MkObj(Num(2 * Scale), Num(Scale), Null, Absent, "", NoSources)
PipelineObjs == {GoodObj, InvertedObj}
PipelineTexts == {<<>>, <<"OBJ">>, <<"W">>, <<"FJ", "OBJ", "F">>, <<"NUM">>,
                  <<"W", "OBJ">>}
PipelineEnvs ==
  {MkEnv(<<>>, <<>>, t) : t \in PipelineTexts}
    \cup {MkEnv(<<<<t>>>>, <<>>, <<>>) : t \in PipelineTexts}
    \cup {MkEnv(<<>>, t, <<>>) : t \in PipelineTexts}

\* an outcome of one generation call: the fetch rejects, or a response
\* arrives whose body is JSON (json) or not
MkOutcome(net, okf, status, json, emsg, env, o) ==
  [net |-> net, ok |-> okf, status |-> status, json |-> json, emsg |-> emsg,
   env |-> env, obj |-> o]

\* what the log of replies keeps of an outcome
Heard(o) == [net |-> o.net, ok |-> o.ok, status |-> o.status, json |-> o.json,
             emsg |-> o.emsg]

GenOutcomes ==
  {MkOutcome("reject", FALSE, 0, FALSE, <<>>, EmptyEnv, EmptyObj)}
    \cup {MkOutcome("response", FALSE, st, TRUE, m, EmptyEnv, EmptyObj) :
            st \in ErrStatuses, m \in Messages}
    \cup {MkOutcome("response", j = "ok", IF j = "ok" THEN 200 ELSE 500, FALSE,
                    <<>>, EmptyEnv, EmptyObj) : j \in {"ok", "bad"}}
    \cup {MkOutcome("response", TRUE, 200, TRUE, <<>>, e, o) :
            e \in PipelineEnvs, o \in PipelineObjs}

\* search results
EvidenceItems == {Item("u1", "t1"), Item("u1", "t2"), Item("u2", "")}
ResultLists == SeqsUpTo(EvidenceItems, MaxResults)

\* an outcome of one search call
MkSearchOutcome(net, okf, items) == [net |-> net, ok |-> okf, items |-> items]
SearchOutcomes ==
  {MkSearchOutcome("reject", FALSE, <<>>), MkSearchOutcome("response", FALSE, <<>>)}
    \cup {MkSearchOutcome("response", TRUE, l) : l \in ResultLists}

---------------------------------------------------------------------------
(* price-advisor-web.js: exports.handler, tavilySearch, askOpenAI *)

Respond(r) == /\ resp' = r
              /\ pc' = "done"

\* Merge web snippets, dedupe by url: the first item of each url, in order
RECURSIVE DedupeByUrl(_, _)
DedupeByUrl(items, seen) ==
  IF items = <<>> THEN <<>>
  ELSE LET x == Head(items) IN
       IF x.url # "" /\ x.url \notin seen
       THEN <<x>> \o DedupeByUrl(Tail(items), seen \cup {x.url})
       ELSE DedupeByUrl(Tail(items), seen)

MaxWeb == 10

\* the merge with the launch-price results put first
MergeWebLaunchFirst(usedRes, launchRes) ==
  Slice0(DedupeByUrl(launchRes \o usedRes, {}), MaxWeb)

MergeWeb(usedRes, launchRes) == Slice0(DedupeByUrl(usedRes \o launchRes, {}), MaxWeb)

\* tavilySearch up to its fetch: without a key it returns at once
tavilySearch(q) ==
  IF req.tavilyKey THEN <<Call("search", q, "", FALSE)>> ELSE <<>>

\* lines 126-161: the checks, the body, the two searches
WebHandler ==
  /\ variant = "web" /\ pc = "start"
  /\ UNCHANGED <<parked, variant, req, found, web, gen, ans, toolUnsupported, replies>>
  /\ IF req.method = "OPTIONS"
       THEN Respond(Preflight(204)) /\ UNCHANGED <<search, calls>>
     ELSE IF req.method # "POST"
       THEN Respond(Bad(400, "POST only", <<>>)) /\ UNCHANGED <<search, calls>>
     ELSE IF ~req.envKey
       THEN Respond(Bad(500, "OPENAI_API_KEY missing", <<>>))
            /\ UNCHANGED <<search, calls>>
     ELSE IF req.body = "invalid"
       THEN Respond(Bad(400, "exception", <<"SyntaxError">>))
            /\ UNCHANGED <<search, calls>>
     ELSE IF req.body = "nullinput"
       THEN Respond(Bad(400, "exception", <<"TypeError">>))
            /\ UNCHANGED <<search, calls>>
     ELSE /\ calls' = calls \o tavilySearch("used") \o tavilySearch("launch")
          /\ search' = [q \in Queries |->
                          IF req.tavilyKey THEN "inflight" ELSE "resolved"]
          /\ pc' = "searching"
          /\ UNCHANGED resp

\* tavilySearch from its fetch on: lines 34-57
TavilyReply(q) ==
  /\ variant = "web" /\ search[q] = "inflight"
  /\ UNCHANGED <<parked, variant, req, web, gen, calls, ans, toolUnsupported, replies>>
  /\ \E o \in SearchOutcomes :
       IF o.net = "reject"
       THEN /\ search' = [search EXCEPT ![q] = "rejected"]
            /\ UNCHANGED found
            \* Promise.all rejects, the handler's catch answers
            /\ IF pc = "searching"
               THEN Respond(Bad(400, "exception", <<"fetch failed">>))
               ELSE UNCHANGED <<pc, resp>>
       ELSE /\ search' = [search EXCEPT ![q] = IF o.ok THEN "resolved" ELSE "degraded"]
            /\ found' = [found EXCEPT ![q] = IF o.ok THEN o.items ELSE <<>>]
            /\ UNCHANGED <<pc, resp>>

\* a handler that goes on as soon as both searches are under way
SearchesStarted == \A q \in Queries : search[q] \in {"inflight", "resolved", "degraded"}

\* await Promise.all([...]): both searches have returned their results
SearchesDone == \A q \in Queries : search[q] \in {"resolved", "degraded"}

\* lines 163-171 and askOpenAI up to its fetch
WebAsk ==
  /\ variant = "web" /\ pc = "searching"
  /\ SearchesDone
  /\ web' = MergeWeb(found["used"], found["launch"])
  \* usedRes and launchRes are not read again
  /\ found' = [q \in Queries |-> <<>>]
  /\ calls' = Append(calls, Call("gen", "", useModel(WebPlan(req.plan)), FALSE))
  /\ gen' = gen + 1
  /\ pc' = "asking"
  /\ UNCHANGED <<parked, variant, req, search, ans, toolUnsupported, resp, replies>>

\* askOpenAI from its fetch on: lines 105-123
AskOpenAIReturn ==
  /\ variant = "web" /\ pc = "asking" /\ gen > 0
  /\ gen' = gen - 1
  /\ UNCHANGED <<parked, variant, req, search, found, web, calls, toolUnsupported>>
  /\ \E o \in GenOutcomes :
     /\ replies' = Append(replies, Heard(o))
     /\ IF o.net = "reject"
       THEN Respond(Bad(400, "exception", <<"fetch failed">>)) /\ UNCHANGED ans
       ELSE IF ~o.ok
       THEN Respond(Bad(400, "OpenAI error", o.emsg)) /\ UNCHANGED ans
       ELSE IF ~o.json
       THEN Respond(Bad(400, "exception", <<"SyntaxError">>)) /\ UNCHANGED ans
       ELSE LET p == ParseReply(o.env.choice, o.obj) IN
            /\ ans' = MkAns(TRUE, 200, <<>>, EmptyEnv, EmptyObj,
                            useModel(WebPlan(req.plan)), p.kind, p.result)
            /\ pc' = "guardrails"
            /\ UNCHANGED resp

\* lines 173-214: guardrails and the final response
WebGuardrails ==
  /\ variant = "web" /\ pc = "guardrails"
  /\ UNCHANGED <<parked, variant, req, search, found, web, gen, calls, ans, toolUnsupported, replies>>
  /\ IF ConfidenceThrows(ans.result.confidence)
     THEN Respond(Bad(400, "exception", <<"TypeError">>))
     ELSE Respond(MkResp(200, "success", TRUE, "", <<>>, ans.model,
                         MkResult("advice", Guardrails(ans.result, web)), FALSE))

---------------------------------------------------------------------------
(* price-advisor-openai.js:126-188 ("openaiA") and                         *)
(* price-advisor-web.js:336-379 ("openaiB"): exports.handler, callOpenAI   *)

OpenAIVariants == {"openaiA", "openaiB"}

\* a handler that lets a body without input through
MissingInputNever(r) == FALSE

\* if (!input): the body carries no listing
MissingInput(r) == r.body # "listing"

\* lines 126-159 up to the fetch of callOpenAI
OpenAIHandler ==
  /\ variant \in OpenAIVariants /\ pc = "start"
  /\ UNCHANGED <<parked, variant, req, search, found, web, ans, toolUnsupported, replies>>
  /\ IF req.method = "OPTIONS"
       THEN Respond(Preflight(204)) /\ UNCHANGED <<gen, calls>>
     ELSE IF req.method # "POST"
       THEN Respond(Bad(405, "POST only", <<>>)) /\ UNCHANGED <<gen, calls>>
     ELSE IF req.body = "invalid"
       THEN Respond(Bad(500, "exception", <<"SyntaxError">>))
            /\ UNCHANGED <<gen, calls>>
     ELSE IF MissingInput(req)
       THEN Respond(Bad(400, "Missing input", <<>>)) /\ UNCHANGED <<gen, calls>>
     ELSE IF ~(req.headerKey \/ req.envKey)
       THEN Respond(Bad(400, "Missing key", <<>>)) /\ UNCHANGED <<gen, calls>>
     ELSE /\ calls' = Append(calls,
                 Call("gen", "", pickModelFromPlan(req.plan, req.headerModel), FALSE))
          /\ gen' = gen + 1
          /\ pc' = "asking"
          /\ UNCHANGED resp

\* callOpenAI from its fetch on
CallOpenAIReturn ==
  /\ variant \in OpenAIVariants /\ pc = "asking" /\ gen > 0
  /\ gen' = gen - 1
  /\ UNCHANGED <<parked, variant, req, search, found, web, calls, toolUnsupported>>
  /\ \E o \in GenOutcomes :
     /\ replies' = Append(replies, Heard(o))
     /\ IF o.net = "reject"
       THEN Respond(Bad(500, "exception", <<"fetch failed">>)) /\ UNCHANGED ans
       ELSE /\ ans' = MkAns(o.ok, o.status,
                            IF o.json THEN o.emsg ELSE <<>>,
                            IF o.json THEN o.env ELSE EmptyEnv,
                            o.obj, pickModelFromPlan(req.plan, req.headerModel),
                            "none", EmptyObj)
            /\ pc' = "respond"
            /\ UNCHANGED resp

\* whether the parsed value passes the handler's test: openaiA wants a truthy
\* value of typeof "object", openaiB anything JSON.parse returns
Accepts(v, kind) ==
  IF v = "openaiA" THEN kind \in {"object", "array"} ELSE kind # "error"

\* the text handed to JSON.parse
JsonStr(v, env) ==
  IF v = "openaiA" THEN extractTextFromResponses(env)
  ELSE coerceJsonString(extractTextFromResponses(env))

QuotaStatus == 429

\* the handler from "if (!ans.ok)" on
OpenAIAnswer(v, a) ==
  IF ~a.ok
  THEN IF a.status = QuotaStatus \/ QuotaPattern(a.emsg)
       THEN Bad(QuotaStatus, "quota", <<>>)
       ELSE Bad(a.status, "OpenAI error", a.emsg)
  ELSE LET jsonStr == JsonStr(v, a.env)
           kind == JsonKind(jsonStr)
       IN IF Accepts(v, kind)
          THEN MkResp(200, "success", TRUE, "", <<>>, a.model,
                      MkResult(kind, JsonValue(jsonStr, a.obj)), FALSE)
          ELSE Bad(400, "parse", <<>>)

OpenAIRespond ==
  /\ variant \in OpenAIVariants /\ pc = "respond"
  /\ Respond(OpenAIAnswer(variant, ans))
  /\ UNCHANGED <<parked, variant, req, search, found, web, gen, calls, ans, toolUnsupported, replies>>

---------------------------------------------------------------------------
(* price-advisor-openai.js:317-368 ("tool"): the tool-using handler *)

\* buildPayload: the call it describes
buildPayload(withWebSearch) == Call("gen", "", MODEL, withWebSearch)

\* a handler that reports the tool as used whatever happened
UsedWebSearchAlways(tu) == TRUE

\* used_web_search: !toolUnsupported (line 364)
UsedWebSearch(tu) == ~tu

\* lines 357-364
ToolAnswer(o, tu) ==
  IF ~o.ok THEN Bad(400, "upstream", o.emsg)
  ELSE LET text == extractText(o.env)
           kind == JsonKind(text)
       IN IF kind \in {"object", "array"}
          THEN MkResp(200, "success", FALSE, "", <<>>, MODEL,
                      MkResult(kind, JsonValue(text, o.obj)), UsedWebSearch(tu))
          ELSE Bad(400, "parse", <<>>)

\* lines 317-340
ToolHandler ==
  /\ variant = "tool" /\ pc = "start"
  /\ UNCHANGED <<parked, variant, req, search, found, web, ans, toolUnsupported, replies>>
  /\ IF req.method = "OPTIONS"
       THEN Respond(Preflight(204)) /\ UNCHANGED <<gen, calls>>
     ELSE IF req.method # "POST"
       THEN Respond(Bad(400, "POST only", <<>>)) /\ UNCHANGED <<gen, calls>>
     ELSE IF req.body = "invalid"
       THEN Respond(Bad(400, "exception", <<"SyntaxError">>))
            /\ UNCHANGED <<gen, calls>>
     ELSE IF MissingInput(req)
       THEN Respond(Bad(400, "Missing input", <<>>)) /\ UNCHANGED <<gen, calls>>
     ELSE IF ~(req.envKey \/ req.headerKey)
       THEN Respond(Bad(400, "Missing key", <<>>)) /\ UNCHANGED <<gen, calls>>
     ELSE /\ calls' = Append(calls, buildPayload(TRUE))
          /\ gen' = gen + 1
          /\ pc' = "asking"
          /\ UNCHANGED resp

\* a retry test that looks at the status alone
RetryAlways(o) == ~o.ok

\* the retry test of line 344
RetryOnPattern(o) == ~o.ok /\ ToolPattern(o.emsg)

\* lines 341-364 after the first call
ToolFirstReply ==
  /\ variant = "tool" /\ pc = "asking" /\ gen > 0
  /\ UNCHANGED <<parked, variant, req, search, found, web, ans>>
  /\ \E o \in GenOutcomes :
     /\ replies' = Append(replies, Heard(o))
     /\ IF o.net = "reject" \/ ~o.json
       THEN /\ Respond(Bad(400, "exception",
                           IF o.net = "reject" THEN <<"fetch failed">>
                           ELSE <<"SyntaxError">>))
            /\ gen' = gen - 1
            /\ UNCHANGED <<calls, toolUnsupported>>
       ELSE /\ toolUnsupported' = RetryOnPattern(o)
            /\ IF toolUnsupported'
               THEN /\ calls' = Append(calls, buildPayload(FALSE))
                    /\ gen' = gen - 1 + 1
                    /\ pc' = "retrying"
                    /\ UNCHANGED resp
               ELSE /\ Respond(ToolAnswer(o, FALSE))
                    /\ gen' = gen - 1
                    /\ UNCHANGED calls

\* lines 354-364 after the retry
ToolRetryReply ==
  /\ variant = "tool" /\ pc = "retrying" /\ gen > 0
  /\ gen' = gen - 1
  /\ UNCHANGED <<parked, variant, req, search, found, web, calls, ans, toolUnsupported>>
  /\ \E o \in GenOutcomes :
     /\ replies' = Append(replies, Heard(o))
     /\ IF o.net = "reject" \/ ~o.json
       THEN Respond(Bad(400, "exception",
                        IF o.net = "reject" THEN <<"fetch failed">>
                        ELSE <<"SyntaxError">>))
       ELSE Respond(ToolAnswer(o, toolUnsupported))

---------------------------------------------------------------------------
(* price-advisor-openai.js:385-503 ("webB"): the second price-advisor-web *)

Failure200(err, emsg) == MkResp(200, "failure", FALSE, err, emsg, "", NoResult, FALSE)

\* lines 385-422 up to the search fetch
WebBHandler ==
  /\ variant = "webB" /\ pc = "start"
  /\ UNCHANGED <<parked, variant, req, found, web, gen, ans, toolUnsupported, replies>>
  /\ IF req.method = "OPTIONS"
       THEN Respond(Preflight(200)) /\ UNCHANGED <<search, calls>>
     ELSE IF req.method # "POST"
       THEN Respond(Bad(400, "POST only", <<>>)) /\ UNCHANGED <<search, calls>>
     ELSE IF req.body = "invalid"
       THEN Respond(Failure200("exception", <<"SyntaxError">>))
            /\ UNCHANGED <<search, calls>>
     ELSE IF ~(req.envKey \/ req.headerKey)
       THEN Respond(Failure200("Missing OPENAI_API_KEY", <<>>))
            /\ UNCHANGED <<search, calls>>
     ELSE IF ~req.tavilyKey
       THEN Respond(Failure200("Missing TAVILY_API_KEY", <<>>))
            /\ UNCHANGED <<search, calls>>
     ELSE /\ calls' = Append(calls, Call("search", "used", "", FALSE))
          /\ search' = [search EXCEPT !["used"] = "inflight"]
          /\ pc' = "searching"
          /\ UNCHANGED resp

\* lines 422-482: every search failure becomes {}, then the generation call
WebBSearchReply ==
  /\ variant = "webB" /\ pc = "searching" /\ search["used"] = "inflight"
  /\ UNCHANGED <<parked, variant, req, found, ans, toolUnsupported, replies>>
  /\ \E o \in SearchOutcomes :
       /\ search' = [search EXCEPT !["used"] =
                       IF o.net = "reject" THEN "rejected"
                       ELSE IF o.ok THEN "resolved" ELSE "degraded"]
       /\ web' = IF o.net = "response" /\ o.ok THEN o.items ELSE <<>>
       /\ IF req.body = "nullinput"
          THEN Respond(Failure200("exception", <<"TypeError">>))
               /\ UNCHANGED <<gen, calls>>
          ELSE /\ calls' = Append(calls,
                      Call("gen", "", useModel(WebPlan(req.plan)), FALSE))
               /\ gen' = gen + 1
               /\ pc' = "asking"
               /\ UNCHANGED resp

\* lines 482-502
WebBAnswer(o, model) ==
  IF o.net = "reject" THEN Failure200("exception", <<"fetch failed">>)
  ELSE IF ~o.json THEN Failure200("exception", <<"SyntaxError">>)
  ELSE LET jsonText == BraceCut(o.env.choice)
           kind == JsonKind(jsonText)
       IN IF kind \in {"object", "array"}
          THEN MkResp(200, "success", TRUE, "", <<>>, model,
                      MkResult(kind, JsonValue(jsonText, o.obj)), FALSE)
          ELSE Failure200("LLM parse error", <<>>)

WebBGenReply ==
  /\ variant = "webB" /\ pc = "asking" /\ gen > 0
  /\ gen' = gen - 1
  /\ UNCHANGED <<parked, variant, req, search, found, web, calls, ans, toolUnsupported>>
  /\ \E o \in GenOutcomes :
       /\ replies' = Append(replies, Heard(o))
       /\ Respond(WebBAnswer(o, useModel(WebPlan(req.plan))))

---------------------------------------------------------------------------
(* Two invocations in one process.  Every const and let of a handler is    *)
(* local to its invocation; the event loop runs one invocation at a time   *)
(* and may change to the other at every await.                             *)

\* the locals of the running invocation
Local ==
  [variant |-> variant, req |-> req, pc |-> pc, search |-> search,
   found |-> found, web |-> web, gen |-> gen, calls |-> calls,
   replies |-> replies, ans |-> ans, toolUnsupported |-> toolUnsupported,
   resp |-> resp]

\* no second invocation
NoOne ==
  [variant |-> "none", req |-> BaseReq, pc |-> "done",
   search |-> [q \in Queries |-> "idle"], found |-> [q \in Queries |-> <<>>],
   web |-> <<>>, gen |-> 0, calls |-> <<>>, replies |-> <<>>, ans |-> NoAns,
   toolUnsupported |-> FALSE, resp |-> NoResp]

\* a process that keeps ans in one module-level variable
SharedAns(p) == ans

\* const ans = await ...: the ans the resumed invocation sees is its own
OwnAns(p) == p.ans

\* the running invocation waits at its await, the other one is resumed
Switch ==
  /\ parked.variant # "none"
  /\ parked.pc # "done"
  /\ parked' = Local
  /\ variant' = parked.variant
  /\ req' = parked.req
  /\ pc' = parked.pc
  /\ search' = parked.search
  /\ found' = parked.found
  /\ web' = parked.web
  /\ gen' = parked.gen
  /\ calls' = parked.calls
  /\ replies' = parked.replies
  /\ ans' = OwnAns(parked)
  /\ toolUnsupported' = parked.toolUnsupported
  /\ resp' = parked.resp

---------------------------------------------------------------------------
(* The pipeline specification: one request through one handler *)

Init ==
  /\ variant \in Variants
  /\ req \in Requests(variant)
  /\ pc = "start"
  /\ search = [q \in Queries |-> "idle"]
  /\ found = [q \in Queries |-> <<>>]
  /\ web = <<>>
  /\ gen = 0
  /\ calls = <<>>
  /\ replies = <<>>
  /\ ans = NoAns
  /\ toolUnsupported = FALSE
  /\ resp = NoResp
  /\ parked = NoOne

Next ==
  \/ WebHandler
  \/ \E q \in Queries : TavilyReply(q)
  \/ WebAsk
  \/ AskOpenAIReturn
  \/ WebGuardrails
  \/ OpenAIHandler
  \/ CallOpenAIReturn
  \/ OpenAIRespond
  \/ ToolHandler
  \/ ToolFirstReply
  \/ ToolRetryReply
  \/ WebBHandler
  \/ WebBSearchReply
  \/ WebBGenReply

Spec == Init /\ [][Next]_vars

---------------------------------------------------------------------------
(* The fair specification: every fetch settles (it resolves or rejects)    *)
(* and the handler then runs on to its return.  The replies parsed by the  *)
(* price-advisor-openai handlers are kept to one token of text here.       *)

LiveInputs ==
  ans # NoAns =>
    ans.env \in {EmptyEnv, MkEnv(<<>>, <<>>, <<"OBJ">>), MkEnv(<<>>, <<>>, <<"W">>)}

NextLive ==
  \/ WebHandler
  \/ \E q \in Queries : TavilyReply(q)
  \/ WebAsk
  \/ AskOpenAIReturn
  \/ WebGuardrails
  \/ OpenAIHandler
  \/ CallOpenAIReturn /\ LiveInputs'
  \/ OpenAIRespond
  \/ ToolHandler
  \/ ToolFirstReply
  \/ ToolRetryReply
  \/ WebBHandler
  \/ WebBSearchReply
  \/ WebBGenReply

SpecLive == Init /\ [][NextLive]_vars /\ WF_vars(NextLive)

---------------------------------------------------------------------------
(* The guardrail specification: lines 173-214 of price-advisor-web.js on   *)
(* every reply object, from the state in which askOpenAI has returned      *)

RawNums == {-Scale, 0, 1, Scale - 1} \cup {Scale * k : k \in 1..MaxPrice}
RawVals == {Null, NaNv} \cup {Num(q) : q \in RawNums}

\* a list of n items with distinct urls u<from+1> .. u<from+n>
ItemList(from, n, title) ==
  [i \in 1..n |-> Item("u" \o ToString(from + i), title)]

\* r.confidence: undefined, "", strings in several cases, a number
Confidences == {Absent, "", "low", "Medium", "HIGH", "certain", "<number>"}

\* r.sources: undefined, [], lists of up to MaxListLen entries
GuardSources ==
  {NoSources} \cup {SomeSources(ItemList(0, n, "s")) : n \in 0..MaxListLen}
    \cup {SomeSources(<<Item("u1", "")>>)}

\* web.results at the guardrails
GuardWebs == {ItemList(10, n, "w") : n \in {0, 1, MaxListLen}}

GuardObjs ==
  {MkObj(l, h, s, Absent, Absent, NoSources) : l, h, s \in RawVals}
    \cup {MkObj(Num(Scale), Num(2 * Scale), Null, c, w, src) :
             c \in Confidences, w \in {Absent, "model"}, src \in GuardSources}

OkReply == Heard(MkOutcome("response", TRUE, 200, TRUE, <<>>, EmptyEnv, EmptyObj))

InitGuard ==
  /\ variant = "web"
  /\ req = BaseReq
  /\ pc = "guardrails"
  /\ search = [q \in Queries |-> "resolved"]
  /\ found = [q \in Queries |-> <<>>]
  /\ web \in GuardWebs
  /\ gen = 0
  /\ calls = <<Call("search", "used", "", FALSE), Call("search", "launch", "", FALSE),
               Call("gen", "", useModel(WebPlan(req.plan)), FALSE)>>
  /\ replies = <<OkReply>>
  /\ ans \in {MkAns(TRUE, 200, <<>>, EmptyEnv, EmptyObj,
                    useModel(WebPlan(req.plan)), "object", o) : o \in GuardObjs}
  /\ toolUnsupported = FALSE
  /\ resp = NoResp
  /\ parked = NoOne

NextGuard == WebGuardrails

SpecGuard == InitGuard /\ [][NextGuard]_vars

---------------------------------------------------------------------------
(* The parsing specification: the price-advisor-openai handlers on every   *)
(* reply text, from the state in which callOpenAI has returned             *)

Texts == SeqsUpTo(Tokens, MaxTextLen)

\* envelopes that carry several shapes at once: no output, a message without
\* parts, a message whose one part has an empty text, a message with a text;
\* with and without output_text; with and without a chat-style choice
ShapeEnvs ==
  {MkEnv(out, ot, ch) :
     out \in {<<>>, <<<<>>>>, <<<<<<>>>>>>, <<<<<<"NL">>>>>>, <<<<<<"OBJ">>>>>>},
     ot \in {<<>>, <<"OBJ">>}, ch \in {<<>>, <<"OBJ">>, <<"ARR">>}}

ParseEnvs == {MkEnv(<<<<t>>>>, <<>>, <<>>) : t \in Texts} \cup ShapeEnvs

InitParse ==
  /\ variant \in OpenAIVariants
  /\ req = BaseReq
  /\ pc = "respond"
  /\ search = [q \in Queries |-> "idle"]
  /\ found = [q \in Queries |-> <<>>]
  /\ web = <<>>
  /\ gen = 0
  /\ calls = <<Call("gen", "", pickModelFromPlan(req.plan, req.headerModel), FALSE)>>
  /\ replies = <<OkReply>>
  /\ ans \in {MkAns(TRUE, 200, <<>>, e, GoodObj,
                    pickModelFromPlan(req.plan, req.headerModel), "none", EmptyObj) :
                e \in ParseEnvs}
  /\ toolUnsupported = FALSE
  /\ resp = NoResp
  /\ parked = NoOne

NextParse == OpenAIRespond

SpecParse == InitParse /\ [][NextParse]_vars

---------------------------------------------------------------------------
(* The merge specification: lines 163-171 of price-advisor-web.js on the   *)
(* results of the two searches, from the state in which both have returned *)

\* results of one search: lists of distinct urls, lists that repeat the urls
\* of another list under other titles, a list that repeats a url, a list
\* with an item that has no url
MergeLists ==
  {ItemList(0, n, "a") : n \in 0..MaxListLen}
    \cup {ItemList(MaxListLen, n, "b") : n \in 1..MaxListLen}
    \cup {ItemList(0, n, "b") : n \in 1..2}
    \cup {<<Item("u1", "a"), Item("u1", "c")>>,
          <<Item("", "x"), Item("u2", "c")>>}

InitMerge ==
  /\ variant = "web"
  /\ req = BaseReq
  /\ pc = "searching"
  /\ search = [q \in Queries |-> "resolved"]
  /\ found \in [Queries -> MergeLists]
  /\ web = <<>>
  /\ gen = 0
  /\ calls = <<Call("search", "used", "", FALSE), Call("search", "launch", "", FALSE)>>
  /\ replies = <<>>
  /\ ans = NoAns
  /\ toolUnsupported = FALSE
  /\ resp = NoResp
  /\ parked = NoOne

NextMerge == WebAsk

SpecMerge == InitMerge /\ [][NextMerge]_vars

---------------------------------------------------------------------------
(* The pair specification: two requests served by one process, their       *)
(* steps interleaved at the awaits                                         *)

\* the requests of the pair: a listing, with and without the pro plan
PairRequests == {BaseReq, [BaseReq EXCEPT !.plan = "pro"]}
PairVariants == {"web", "openaiB"}

\* the provider replies of the pair: at most one result per search, no
\* error message text
PairInputs ==
  /\ \A q \in Queries : found[q] \in {<<>>, <<Item("u1", "t1")>>}
  /\ \A i \in 1..Len(replies) : replies[i].emsg = <<>> /\ replies[i].status # 400

InitPair ==
  /\ variant \in PairVariants
  /\ req \in PairRequests
  /\ pc = "start"
  /\ search = [q \in Queries |-> "idle"]
  /\ found = [q \in Queries |-> <<>>]
  /\ web = <<>>
  /\ gen = 0
  /\ calls = <<>>
  /\ replies = <<>>
  /\ ans = NoAns
  /\ toolUnsupported = FALSE
  /\ resp = NoResp
  /\ parked \in {[NoOne EXCEPT !.variant = v, !.pc = "start"] : v \in PairVariants}

NextPair ==
  \/ Switch
  \/ WebHandler /\ PairInputs'
  \/ (\E q \in Queries : TavilyReply(q)) /\ PairInputs'
  \/ WebAsk /\ PairInputs'
  \/ AskOpenAIReturn /\ PairInputs'
  \/ WebGuardrails /\ PairInputs'
  \/ OpenAIHandler /\ PairInputs'
  \/ CallOpenAIReturn /\ PairInputs'
  \/ OpenAIRespond /\ PairInputs'

SpecPair == InitPair /\ [][NextPair]_vars

---------------------------------------------------------------------------
(* The proxy specification: the two handlers of price-advisor-proxy.js,    *)
(* each forwarding one request to the remote price-advisor-web function.   *)
(* A request body is Absent (none was sent), "" , "invalid", "empty" (the  *)
(* text {}) or "listing"; req.plan is the value of the x-plan header.      *)

ProxyVariants == {"proxyA", "proxyB"}

ProxyRequests ==
  {MkReq(m, b, "mobiles", p, Absent, FALSE, TRUE, TRUE) :
     m \in Methods, b \in {Absent, "", "invalid", "empty", "listing"},
     p \in {Absent, "", "free", "pro"}}

\* the request sent upstream: its body and its x-plan header
Forward(body, plan) == [to |-> "upstream", body |-> body, plan |-> plan]

\* a proxy that sends no plan of the caller upstream
ProxyPlanDropped(hdr) == "free"

\* event.headers["x-plan"] || "free"
ProxyPlan(hdr) == IF Falsy(hdr) THEN "free" ELSE hdr

\* what the remote function can answer: the fetch rejects, or a response
\* arrives with a status, a status text ("" over HTTP/2) and a body that is
\* a JSON object with an error field, a JSON object without one, or not JSON
UpstreamOutcomes ==
  {[net |-> "reject", ok |-> FALSE, status |-> 0, statusText |-> "", body |-> ""]}
    \cup {[net |-> "response", ok |-> st \in 200..299, status |-> st,
           statusText |-> tx, body |-> b] :
            st \in {200, 201} \cup ErrStatuses, tx \in {"", "status text"},
            b \in {"json-error", "json", "text"}}

\* the first handler, lines 17-35
ProxyAHandler ==
  /\ variant = "proxyA" /\ pc = "start"
  /\ UNCHANGED <<parked, variant, req, search, found, web, ans, toolUnsupported, replies>>
  /\ IF req.method = "OPTIONS"
       THEN Respond(Preflight(204)) /\ UNCHANGED <<gen, calls>>
     ELSE IF req.method # "POST"
       THEN Respond(Bad(405, "POST only", <<>>)) /\ UNCHANGED <<gen, calls>>
     ELSE /\ calls' = Append(calls,
                             Forward(IF Falsy(req.body) THEN "empty" ELSE req.body,
                                     ProxyPlan(req.plan)))
          /\ gen' = gen + 1
          /\ pc' = "forwarding"
          /\ UNCHANGED resp

\* the first handler, lines 36-47
ProxyAReply ==
  /\ variant = "proxyA" /\ pc = "forwarding" /\ gen > 0
  /\ gen' = gen - 1
  /\ UNCHANGED <<parked, variant, req, search, found, web, calls, ans, toolUnsupported>>
  /\ \E o \in UpstreamOutcomes :
     /\ replies' = Append(replies, o)
     /\ IF o.net = "reject"
          THEN Respond(Bad(400, "exception", <<"fetch failed">>))
        ELSE IF ~o.ok
          THEN Respond(Bad(o.status, "upstream",
                           IF o.body = "json-error" THEN <<"error">>
                           ELSE IF o.statusText # "" THEN <<o.statusText>>
                           ELSE <<"HTTP", ToString(o.status)>>))
        ELSE Respond(MkResp(200, "success", FALSE, "", <<>>, "",
                            MkResult(IF o.body = "text" THEN "raw" ELSE o.body,
                                     EmptyObj), FALSE))

\* the second handler, lines 65-77
ProxyBHandler ==
  /\ variant = "proxyB" /\ pc = "start"
  /\ UNCHANGED <<parked, variant, req, search, found, web, ans, toolUnsupported, replies>>
  /\ IF req.method = "OPTIONS"
       THEN Respond(Preflight(204)) /\ UNCHANGED <<gen, calls>>
     ELSE IF req.method # "POST"
       THEN Respond(Bad(400, "POST only", <<>>)) /\ UNCHANGED <<gen, calls>>
     ELSE /\ calls' = Append(calls, Forward(req.body, ProxyPlan(req.plan)))
          /\ gen' = gen + 1
          /\ pc' = "forwarding"
          /\ UNCHANGED resp

\* the second handler, lines 79-83
ProxyBReply ==
  /\ variant = "proxyB" /\ pc = "forwarding" /\ gen > 0
  /\ gen' = gen - 1
  /\ UNCHANGED <<parked, variant, req, search, found, web, calls, ans, toolUnsupported>>
  /\ \E o \in UpstreamOutcomes :
     /\ replies' = Append(replies, o)
     /\ IF o.net = "reject"
          THEN Respond(Bad(502, "exception", <<"Proxy failed:", "fetch failed">>))
        ELSE Respond(MkResp(o.status, "relay", FALSE, "", <<>>, "",
                            MkResult(o.body, EmptyObj), FALSE))

InitProxy ==
  /\ variant \in ProxyVariants
  /\ req \in ProxyRequests
  /\ pc = "start"
  /\ search = [q \in Queries |-> "idle"]
  /\ found = [q \in Queries |-> <<>>]
  /\ web = <<>>
  /\ gen = 0
  /\ calls = <<>>
  /\ replies = <<>>
  /\ ans = NoAns
  /\ toolUnsupported = FALSE
  /\ resp = NoResp
  /\ parked = NoOne

NextProxy ==
  \/ ProxyAHandler
  \/ ProxyAReply
  \/ ProxyBHandler
  \/ ProxyBReply

SpecProxy == InitProxy /\ [][NextProxy]_vars

---------------------------------------------------------------------------
(* Claims *)

IsGen(c) == c.to = "gen"
GenCalls == SelectSeq(calls, IsGen)
IsSearch(c) == c.to = "search"
SearchCalls == SelectSeq(calls, IsSearch)

\* C1: every success response of the price-advisor-web guardrails carries
\* three numbers with market_price_low > 0, market_price_low <=
\* market_price_high and market_price_low <= suggested_price <=
\* market_price_high.  (SpecGuard)
C1_BandInvariant ==
  (variant = "web" /\ resp.kind = "success") =>
    LET r == resp.result.rec IN
      /\ r.market_price_low.k = "num"
      /\ r.market_price_high.k = "num"
      /\ r.suggested_price.k = "num"
      /\ r.market_price_low.q > 0
      /\ r.market_price_low.q <= r.market_price_high.q
      /\ r.market_price_low.q <= r.suggested_price.q
      /\ r.suggested_price.q <= r.market_price_high.q

\* C2: when the generation provider answers price-advisor-web successfully
\* with a text that is not JSON, the request ends in a failure, never in an
\* ok:true response.  (Spec)
C2_NonJsonIsFailure ==
  (variant = "web" /\ pc = "done" /\ ans.kind = "error") =>
    (resp.kind = "failure" /\ ~resp.ok)

\* C3: a price-advisor-openai handler answers ok:true only if the extracted
\* text, after coerceJsonString, parses to a JSON object; for every other
\* text it answers the 'Failed to parse JSON from model' failure.  (SpecParse)
C3_OkOnlyForObjects ==
  (variant \in OpenAIVariants /\ pc = "done" /\ ans.ok) =>
    LET kind == JsonKind(coerceJsonString(extractTextFromResponses(ans.env))) IN
      /\ resp.ok => kind = "object"
      /\ kind # "object" => resp = Bad(400, "parse", <<>>)

\* C4: a failed search call (fetch rejected, or non-success status) is
\* absorbed: the generation call is still made and the request does not end
\* in an error without it.  (Spec)
C4_SearchFailureAbsorbed ==
  (variant = "web" /\ pc = "done"
     /\ \E q \in Queries : search[q] \in {"rejected", "degraded"}) =>
    /\ GenCalls # <<>>
    /\ ~(resp.kind = "failure" /\ replies = <<>>)

\* C5: without a search credential the request makes no search call, still
\* makes the generation call, and does not end in an error that the missing
\* credential caused.  (Spec)
C5_NoSearchKeyDegrades ==
  (variant \in {"web", "webB"} /\ ~req.tavilyKey /\ pc = "done") =>
    /\ SearchCalls = <<>>
    /\ GenCalls # <<>>
    /\ ~(resp.kind = "failure" /\ replies = <<>>)

\* C6, as stated: a listing whose category is empty, blank or missing is
\* rejected before any provider call.  (Spec)
EmptyCategory(r) == r.category = Absent \/ Trim(r.category) = ""

HasCredentials ==
  CASE variant = "web" -> req.envKey
    [] variant = "webB" -> (req.envKey \/ req.headerKey) /\ req.tavilyKey
    [] OTHER -> req.envKey \/ req.headerKey

C8_UpstreamErrorRelayed ==
  (variant \in {"web", "openaiA", "openaiB", "webB"} /\ pc = "done"
     /\ replies # <<>> /\ replies[1].net = "response" /\ ~replies[1].ok) =>
    /\ resp.kind = "failure"
    /\ IF replies[1].status = QuotaStatus \/ QuotaPattern(replies[1].emsg)
       THEN resp.status = QuotaStatus /\ resp.error = "quota"
       ELSE resp.status = replies[1].status /\ resp.emsg = replies[1].emsg

\* the model of a plan tier
TierModel(tier) ==
  CASE tier = "vip" -> "gpt-5"
    [] tier = "pro" -> "gpt-5-mini"
    [] OTHER -> "gpt-4o-mini"

C10_BandSwap ==
  LET raw == ans.result
      out == resp.result.rec
      lo == raw.market_price_low
      hi == raw.market_price_high
  IN (variant = "web" /\ resp.kind = "success"
        /\ lo.k = "num" /\ hi.k = "num" /\ lo.q > 0 /\ hi.q > 0) =>
       IF lo.q > hi.q
       THEN /\ out.market_price_low = Num(MathRound(hi.q))
            /\ out.market_price_high = Num(MathRound(lo.q))
       ELSE /\ out.market_price_low = Num(MathRound(lo.q))
            /\ out.market_price_high = Num(MathRound(hi.q))

\* the reply object and the emitted record of a price-advisor-web success
RawReply == ans.result
Emitted == resp.result.rec
WebSuccess == variant = "web" /\ pc = "done" /\ resp.kind = "success"
IsNum(v) == v.k = "num"
NotANumber(v) == v.k \in {"null", "nan"}

\* C11: when both band bounds of the reply are positive numbers and
\* suggested_price is absent, null or not a number, the emitted
\* suggested_price is a number inside the emitted band.  (SpecGuard)
C11_MissingSuggestedFilled ==
  (WebSuccess /\ IsNum(RawReply.market_price_low) /\ RawReply.market_price_low.q > 0
     /\ IsNum(RawReply.market_price_high) /\ RawReply.market_price_high.q > 0
     /\ NotANumber(RawReply.suggested_price)) =>
    /\ IsNum(Emitted.market_price_low) /\ IsNum(Emitted.market_price_high)
    /\ IsNum(Emitted.suggested_price)
    /\ Emitted.market_price_low.q <= Emitted.suggested_price.q
    /\ Emitted.suggested_price.q <= Emitted.market_price_high.q

\* round(low*0.4 + high*0.6) on whole numbers
WeightedDefault(low, high) == (4 * low + 6 * high + 5) \div 10

\* C12: when suggested_price is absent or not a number and both band bounds
\* are present, the emitted suggested_price is round(low*0.4 + high*0.6) of
\* the emitted band.  (SpecGuard)
C12_WeightedDefault ==
  (WebSuccess /\ NotANumber(RawReply.suggested_price)
     /\ IsNum(Emitted.market_price_low) /\ Emitted.market_price_low.q > 0
     /\ IsNum(Emitted.market_price_high)) =>
    Emitted.suggested_price =
      Num(WeightedDefault(Emitted.market_price_low.q, Emitted.market_price_high.q))

\* C13: the confidence of every emitted record is one of "low", "medium",
\* "high".  (SpecGuard)
C13_ConfidenceEnum ==
  WebSuccess => Emitted.confidence \in {"low", "medium", "high"}

\* the first at most MaxSources entries of a list, as title and url
SourcePrefix(from) ==
  [i \in 1..(IF Len(from) <= MaxSources THEN Len(from) ELSE MaxSources) |->
     Item(from[i].url, IF from[i].title = "" THEN "source" ELSE from[i].title)]

\* C14: when the reply has no sources (the field is absent or is an empty
\* list) and the evidence set is not empty, the emitted sources are the
\* first at most 6 items of the evidence set, in order.  (SpecGuard)
C14_SourcesBackfilled ==
  (WebSuccess /\ web # <<>>
     /\ (~RawReply.sources.present \/ RawReply.sources.items = <<>>)) =>
    Emitted.sources.items = SourcePrefix(web)

\* C15: the emitted sources are at most 6, and they are, in order, the first
\* entries of the list they were taken from (the reply's sources when the
\* reply has the field, the evidence set otherwise), each as its url and its
\* title ("source" when the title is empty).  (SpecGuard)
C15_SourcesCappedPrefix ==
  WebSuccess =>
    LET from == IF RawReply.sources.present THEN RawReply.sources.items ELSE web
        out == Emitted.sources.items
    IN /\ Len(out) <= MaxSources
       /\ Len(out) = (IF Len(from) <= MaxSources THEN Len(from) ELSE MaxSources)
       /\ \A i \in 1..Len(out) :
            /\ out[i].url = from[i].url
            /\ out[i].title = (IF from[i].title = "" THEN "source" ELSE from[i].title)

C15_Witness ==
  /\ WebSuccess
  /\ RawReply.sources.present
  /\ Len(RawReply.sources.items) > MaxSources
  /\ Len(Emitted.sources.items) = MaxSources

\* out is the first-seen item of every url of all, in first-seen order, cut
\* to MaxWeb
MergedFirstSeen(all, out) ==
  LET firsts == {i \in 1..Len(all) :
                   /\ all[i].url # ""
                   /\ \A j \in 1..(i - 1) : all[j].url # all[i].url}
      n == IF Cardinality(firsts) <= MaxWeb THEN Cardinality(firsts) ELSE MaxWeb
  IN /\ Len(out) = n
     /\ \A k \in 1..n :
          \E i \in firsts : /\ Cardinality({j \in firsts : j <= i}) = k
                            /\ out[k] = all[i]
     /\ \A k1, k2 \in 1..n : k1 # k2 => out[k1].url # out[k2].url

\* C16: the step that merges the results of the two searches leaves an
\* evidence set in which no two items share a url, which keeps for each url
\* the item seen first in the order used-price results then launch-price
\* results, in first-seen order, and which has at most 10 items.  (SpecMerge)
C16_MergeDedupe ==
  [][(variant = "web" /\ pc = "searching" /\ pc' = "asking") =>
       (Len(web') <= MaxWeb
          /\ MergedFirstSeen(found["used"] \o found["launch"], web'))]_vars

C16_Witness ==
  /\ variant = "web" /\ pc = "asking"
  /\ Len(web) = MaxWeb
  /\ web[1] = Item("u1", "a")
  /\ \E k \in 1..Len(web) : web[k].title = "b"

\* the first shape, in the order content parts, output_text, chat-style
\* message.content, that holds a text which is not empty
PriorityText(env) ==
  LET parts == IF env.output # <<>> THEN TrimText(JoinNL(env.output[1])) ELSE <<>>
  IN IF parts # <<>> THEN parts
     ELSE IF env.output_text # <<>> THEN env.output_text
     ELSE env.choice

\* C17: the text a price-advisor-openai handler extracts from a reply
\* envelope is the text of the first shape, in the order content parts,
\* output_text, chat-style message.content, that is not empty.  (SpecParse)
C17_ExtractorPriority ==
  (variant \in OpenAIVariants /\ pc = "done" /\ ans.ok) =>
    extractTextFromResponses(ans.env) = PriorityText(ans.env)

\* C18: within one request a generation call is made only after every
\* search call of the request has returned (and, in price-advisor-web, the
\* results are merged); the retry call is made only after the first
\* generation call has returned; never are two generation calls of the
\* request in flight together.  (Spec)
C18_Sequential ==
  /\ gen \in {0, 1}
  /\ gen = Len(GenCalls) - Len(replies)
  /\ \A i, j \in 1..Len(calls) : (IsSearch(calls[i]) /\ IsGen(calls[j])) => i < j
  /\ GenCalls # <<>> => \A q \in Queries : search[q] # "inflight"
  /\ (variant = "web" /\ GenCalls # <<>>) =>
       /\ SearchesDone
       /\ pc \in {"asking", "guardrails", "done"}
  /\ (variant = "tool" /\ Len(calls) = 2) =>
       (Len(replies) >= 1 /\ replies[1].net = "response" /\ ~replies[1].ok)

C18_Witness ==
  /\ variant = "web" /\ pc = "asking"
  /\ gen = 1
  /\ Len(SearchCalls) = 2
  /\ search["used"] = "resolved" /\ search["launch"] = "degraded"
  /\ web # <<>>

\* the model an invocation chooses from its own request
ModelOf(p) ==
  IF p.variant \in OpenAIVariants
  THEN pickModelFromPlan(p.req.plan, p.req.headerModel)
  ELSE useModel(WebPlan(p.req.plan))

Gens(p) == SelectSeq(p.calls, IsGen)

\* what an invocation holds and answers is made of its own request, its own
\* evidence and its own generation reply
OwnResponse(p) ==
  /\ \A i \in 1..Len(p.calls) : IsGen(p.calls[i]) => p.calls[i].model = ModelOf(p)
  /\ p.gen = Len(Gens(p)) - Len(p.replies)
  /\ Len(p.replies) <= 1
  /\ p.ans # NoAns =>
       /\ p.ans.model = ModelOf(p)
       /\ Len(p.replies) = 1 /\ p.replies[1].net = "response"
       /\ p.ans.ok = p.replies[1].ok /\ p.ans.status = p.replies[1].status
  /\ (p.pc = "done" /\ p.ans = NoAns) => p.resp.kind \in {"failure", "empty"}
  /\ (p.variant = "web" /\ p.pc = "done" /\ p.ans # NoAns) =>
       p.resp = MkResp(200, "success", TRUE, "", <<>>, ModelOf(p),
                       MkResult("advice", Guardrails(p.ans.result, p.web)), FALSE)
  /\ (p.variant \in OpenAIVariants /\ p.pc = "done" /\ p.ans # NoAns) =>
       /\ p.resp = OpenAIAnswer(p.variant, p.ans)
       /\ p.resp.kind = "success" => p.resp.model = ModelOf(p)

\* C19: however the steps of two requests of one process interleave, each
\* request's calls, parsed reply and response come from its own request, its
\* own evidence set and its own generation reply, as when it runs alone, and
\* both see the configuration the process started with.  (SpecPair)
C19_RequestsIndependent ==
  /\ OwnResponse(Local)
  /\ parked.variant # "none" =>
       /\ OwnResponse(parked)
       /\ parked.req.envKey = req.envKey /\ parked.req.tavilyKey = req.tavilyKey
       /\ req.envKey = BaseReq.envKey /\ req.tavilyKey = BaseReq.tavilyKey

C19_Witness ==
  /\ variant = "web" /\ parked.variant = "web"
  /\ req.plan # parked.req.plan
  /\ pc = "done" /\ parked.pc = "done"
  /\ resp.kind = "success" /\ parked.resp.kind = "success"
  /\ resp.model # parked.resp.model
  /\ web # parked.web
  /\ ans.result # parked.ans.result

CaughtAs(msg) ==
  /\ resp.kind = "failure"
  /\ ~resp.ok
  /\ resp.error = "exception"
  /\ resp.emsg = <<msg>>

\* a POST that gets as far as the handler's try block
ReachesTry ==
  /\ req.method = "POST"
  /\ variant = "web" => req.envKey

C21_Caught ==
  /\ pc = "done" => resp.kind # "none"
  /\ (ReachesTry /\ req.body = "invalid") =>
       /\ calls = <<>>
       /\ pc = "done" => CaughtAs("SyntaxError")
  /\ (pc = "done" /\ replies # <<>> /\ replies[Len(replies)].net = "reject") =>
       CaughtAs("fetch failed")
  /\ (variant = "web" /\ pc = "done" /\ \E q \in Queries : search[q] = "rejected") =>
       CaughtAs("fetch failed")

\* C21: every invocation ends by returning a response; a request body that
\* is not JSON and a rejected fetch are caught by the handler and answered
\* with a failure that carries the exception's message, never with an ok
\* result; a request whose body is not JSON makes no provider call.
\* (SpecLive)
C21_AlwaysResponds == []C21_Caught /\ <>(pc = "done")

C21_Witness ==
  /\ variant = "web"
  /\ req.method = "POST" /\ req.body = "invalid"
  /\ pc = "done"
  /\ calls = <<>>
  /\ resp.status = 400 /\ resp.emsg = <<"SyntaxError">>

\* the retry without tools was executed: a second call, without the tool,
\* was made and its reply is the one that was parsed
RetryExecuted ==
  /\ Len(calls) = 2 /\ calls[2] = buildPayload(FALSE)
  /\ Len(replies) = 2

\* the reply of the first, tool-enabled call is the one that was parsed
FirstCallParsed ==
  /\ calls = <<buildPayload(TRUE)>>
  /\ Len(replies) = 1

\* C22: in the tool-using handler a success response reports
\* used_web_search = false exactly when the retry without tools was
\* executed for the request, and true exactly when the reply of the first,
\* tool-enabled call was the one parsed.  (Spec)
C22_UsedWebSearchFlag ==
  (variant = "tool" /\ pc = "done" /\ resp.kind = "success") =>
    /\ resp.used_web_search = FALSE <=> RetryExecuted
    /\ resp.used_web_search = TRUE <=> FirstCallParsed

C22_Witness ==
  /\ variant = "tool" /\ pc = "done" /\ resp.kind = "success"
  /\ RetryExecuted
  /\ toolUnsupported
  /\ resp.used_web_search = FALSE

\* the one upstream reply of a finished proxy request
Upstream == replies[1]

\* what a proxy does apart from the body it sends
ProxyRelays ==
  /\ pc = "done" => resp.kind # "none"
  /\ req.method # "POST" => calls = <<>> /\ replies = <<>>
  /\ (req.method = "POST" /\ pc # "start") =>
       /\ Len(calls) = 1 /\ calls[1].to = "upstream"
       /\ calls[1].plan = (IF req.plan \in {Absent, ""} THEN "free" ELSE req.plan)
  /\ (req.method = "POST" /\ pc = "done") =>
       /\ Len(replies) = 1
       /\ (Upstream.net = "response" /\ ~Upstream.ok) => resp.status = Upstream.status
       /\ Upstream.net = "reject" =>
            /\ resp.kind = "failure" /\ resp.error = "exception"
            /\ resp.status \in {400, 502}

\* C23, read to the letter: for every POST each proxy issues exactly one upstream
\* request that carries the caller's body and the caller's x-plan value
\* ("free" when absent); a non-success upstream status is relayed as that
\* same status code; a rejected upstream fetch yields an error response;
\* OPTIONS and other methods cause no upstream request.  (SpecProxy)
C23_CarriesCallersBody ==
  /\ ProxyRelays
  /\ (req.method = "POST" /\ pc # "start") => calls[1].body = req.body

\* C23, with the default body: as above, but the first proxy sends the body {} when the
\* caller sent none (or an empty one); in every other case the body sent is
\* the caller's.  (SpecProxy)
C23_BodyOrEmptyObject ==
  /\ ProxyRelays
  /\ (req.method = "POST" /\ pc # "start") =>
       calls[1].body = (IF variant = "proxyA" /\ req.body \in {Absent, ""}
                        THEN "empty" ELSE req.body)

C23_Witness ==
  /\ variant = "proxyA" /\ req.method = "POST" /\ pc = "done"
  /\ req.body = Absent /\ req.plan = "pro"
  /\ calls = <<Forward("empty", "pro")>>
  /\ Upstream.net = "response" /\ Upstream.status = 429
  /\ resp.status = 429 /\ resp.kind = "failure"

=============================================================================
